---- MODULE Spec2Model ----
(***************************************************************************)
(* kubernetes-mcp: the command executor (execInPod), the stream collector  *)
(* (collectStream) and the port-forward session registry, as state         *)
(* machines over the callbacks and handler steps of the TypeScript source. *)
(*                                                                         *)
(* Independent components, each with its specification:                    *)
(*   ExecSpec    / FairExecSpec     one execInPod invocation               *)
(*   CollectSpec / FairCollectSpec  one collectStream invocation           *)
(*   Spec                           the port-forward tools on `sessions`   *)
(*   LifecycleSpec                  Spec plus the end of the process and   *)
(*                                  an unreachable target pod              *)
(*   DispatchSpec                   one tool handler and the faults of its *)
(*                                  underlying calls                       *)
(*   ClientSpec                     the JSON-RPC client of the smoke test  *)
(*   KubeSpec                       the kubeconfig cache, runCommand and   *)
(*                                  k8s_use_context                        *)
(*   IdSpec                         makeSessionId on two argument tuples   *)
(*   ServerSpec                     a k8s_exec in flight and list calls    *)
(*                                  submitted after it                     *)
(* A specification leaves the variables of the other components at their   *)
(* initial values.                                                         *)
(***************************************************************************)
EXTENDS Integers, Sequences, FiniteSets, TLC

VARIABLES
  \* ---- execInPod (src/src/tools/exec.ts) ----
  timeoutSeconds, \* the timeout execInPod was called with (timeoutMs / 1000)
  settled,        \* let settled = false
  timer,          \* the setTimeout handle: "armed" | "fired" | "cleared"
  timerDue,       \* the instant (seconds from invocation start) the timer is due
  execNow,        \* wall clock, seconds from invocation start
  stdoutChunks,   \* const stdoutChunks: Buffer[]
  stderrChunks,   \* const stderrChunks: Buffer[]
  execPromise,    \* the promise execInPod returns: [state, value]
  settleCalls,    \* how many times resolve(...) or reject(...) has been called
  execLog,        \* the events that have occurred, in order (history)
  \* ---- collectStream (src/src/utils/stream-helpers.ts) ----
  chunks,         \* const chunks: Buffer[]
  collectTimer,   \* "armed" | "fired" | "cleared"
  collectDue,     \* the instant the deadline timer is due
  collectNow,     \* wall clock, seconds from invocation start
  stream,         \* the PassThrough: "open" | "ended" | "errored" | "destroyed"
  collectPromise, \* the promise collectStream returns: [state, value]
  emitted,        \* every chunk the source delivered: [chunk, late] (history)
  \* ---- port-forward registry (src/src/tools/serviceaccounts.ts) ----
  sessions,       \* const sessions = new Map<string, PortForwardSession>(), in insertion order
  servers,        \* the netServer of each start call: [port, state, connected]
  startCall,      \* the k8s_port_forward_start invocations
  stopCall,       \* the k8s_port_forward_stop invocations
  registrations,  \* number of sessions.set calls so far (the clock createdAt reads)
  \* ---- the server process and the cluster (src/unnamed/part_008) ----
  process,        \* "running" | "transportClosed" | "exited"
  podReachable,   \* whether a tunnel to the target pod can be negotiated
  \* ---- one dispatched tool handler (the try/catch of each server.tool callback) ----
  tool,           \* the tool whose handler is running
  callIndex,      \* how many of its underlying calls have returned
  outcome,        \* how the handler ended: [kind, ...]
  \* ---- McpClient of the smoke test (src/unnamed/part_000) ----
  pending,        \* this.pending = new Map(): the ids of the outstanding requests
  nextId,         \* this.nextId
  requestState,   \* per request id: [promise, timer, calls]
  proc,           \* the server child process: "running" | "closed"
  received,       \* number of 'line' events so far
  lastLine,       \* the line of the last 'line' event (history)
  \* ---- kubeconfig cache and k8s_use_context (src/src/k8s-client.ts, src/src/tools/batch.ts) ----
  kubeConfig,     \* let kubeConfig: k8s.KubeConfig | null
  loads,          \* number of kc.loadFromDefault() calls so far
  currentContext, \* current-context of the kubeconfig file
  handle,         \* what the last getKubeConfig() call returned (history)
  useContext,     \* the k8s_use_context invocation: [pc, name, run, result]
  switches,       \* number of k8s_use_context invocations so far
  \* ---- makeSessionId on two argument tuples ----
  idArgs,         \* the two argument tuples
  idResult,       \* the two ids, once computed
  \* ---- the stdio server: requests dispatched while a k8s_exec is in flight ----
  inbox,          \* requests read from stdin whose handler has not run yet
  responses       \* the responses written to stdout, in order

execVars == <<timeoutSeconds, settled, timer, timerDue, execNow, stdoutChunks, stderrChunks,
              execPromise, settleCalls, execLog>>
collectVars == <<chunks, collectTimer, collectDue, collectNow, stream,
                 collectPromise, emitted>>
pfVars == <<sessions, servers, startCall, stopCall, registrations>>
mainVars == <<process, podReachable>>
toolVars == <<tool, callIndex, outcome>>
clientVars == <<pending, nextId, requestState, proc, received, lastLine>>
kubeVars == <<kubeConfig, loads, currentContext, handle, useContext, switches>>
idVars == <<idArgs, idResult>>
serverVars == <<inbox, responses>>
vars == <<execVars, collectVars, pfVars, mainVars, toolVars, clientVars, kubeVars, idVars,
          serverVars>>

-----------------------------------------------------------------------------
\* Bounds of the model.

\* timeoutSeconds / durationSeconds are drawn from 1..MaxTimeout.
MaxTimeout == 2
\* At most MaxChunks chunks are delivered in one invocation.
MaxChunks == 3
\* The status callback is invoked at most MaxStatus times by the client library.
MaxStatus == 1

\* The clock runs one second past the longest timeout.
MaxTime == MaxTimeout + 1

\* Bytes a chunk may carry: 'a', and the two bytes of U+00E9.
Bytes == {97, 195, 169}
\* A chunk is a Buffer, here of one byte.
ChunkValues == {<<b>> : b \in Bytes}

-----------------------------------------------------------------------------
\* Helpers shared by execInPod and collectStream.

\* Buffer.concat(list)
RECURSIVE BufferConcat(_)
BufferConcat(list) ==
  IF list = <<>> THEN <<>> ELSE Head(list) \o BufferConcat(Tail(list))

ReplacementChar == 65533

\* buf.toString('utf-8'): the code points of a byte sequence. An ASCII byte is
\* itself; a two-byte lead followed by a continuation byte is one code point;
\* any other byte decodes to U+FFFD.
RECURSIVE Utf8Decode(_)
Utf8Decode(bs) ==
  IF bs = <<>> THEN <<>>
  ELSE LET b == Head(bs) IN
    IF b < 128 THEN <<b>> \o Utf8Decode(Tail(bs))
    ELSE IF b >= 194 /\ b <= 223 /\ Len(bs) >= 2 /\ bs[2] >= 128 /\ bs[2] <= 191
      THEN <<(b - 192) * 64 + (bs[2] - 128)>> \o Utf8Decode(Tail(Tail(bs)))
      ELSE <<ReplacementChar>> \o Utf8Decode(Tail(bs))

\* Buffer.concat(list).toString('utf-8')
ChunksToString(list) == Utf8Decode(BufferConcat(list))

\* A promise: resolve/reject settle it when it is pending and do nothing otherwise.
PendingPromise == [state |-> "pending", value |-> <<>>]
PromiseSettle(p, st, val) ==
  IF p.state = "pending" THEN [state |-> st, value |-> val] ELSE p

-----------------------------------------------------------------------------
\* execInPod

Statuses == {"Success", "Failure"}

ExecStart(t) ==
  /\ timeoutSeconds = t
  /\ settled = FALSE
  /\ timer = "armed"
  /\ timerDue = t
  /\ execNow = 0
  /\ stdoutChunks = <<>>
  /\ stderrChunks = <<>>
  /\ execPromise = PendingPromise
  /\ settleCalls = 0
  /\ execLog = <<>>

\* The state of the exec variables in the specifications of the other components.
ExecIdle == ExecStart(1)

ExecInit == \E t \in 1..MaxTimeout : ExecStart(t)

\* The clock advances; a timer that is due runs before the clock moves on.
ExecTick ==
  /\ UNCHANGED <<collectVars, pfVars, mainVars, toolVars, clientVars, kubeVars, idVars,
                 serverVars>>
  /\ execNow < MaxTime
  /\ ~(timer = "armed" /\ execNow >= timerDue)
  /\ execNow' = execNow + 1
  /\ UNCHANGED <<timeoutSeconds, settled, timer, timerDue, stdoutChunks, stderrChunks,
                 execPromise, settleCalls, execLog>>

\* stdoutStream.on('data', chunk => stdoutChunks.push(chunk)): the listener
\* touches the chunk list and nothing else.
ExecStdoutPushRearm(chunk) ==
  /\ stdoutChunks' = Append(stdoutChunks, chunk)
  /\ timer' = timer
  /\ timerDue' = IF timer = "armed" THEN execNow + 1 ELSE timerDue
ExecStdoutPush(chunk) ==
  /\ stdoutChunks' = Append(stdoutChunks, chunk)
  /\ UNCHANGED <<timer, timerDue>>

ExecStdoutData ==
  /\ UNCHANGED <<collectVars, pfVars, mainVars, toolVars, clientVars, kubeVars, idVars,
                 serverVars>>
  /\ Len(stdoutChunks) + Len(stderrChunks) < MaxChunks
  /\ \E chunk \in ChunkValues : ExecStdoutPush(chunk)
  /\ UNCHANGED <<timeoutSeconds, settled, execNow, stderrChunks, execPromise,
                 settleCalls, execLog>>

\* stderrStream.on('data', chunk => stderrChunks.push(chunk))
ExecStderrData ==
  /\ UNCHANGED <<collectVars, pfVars, mainVars, toolVars, clientVars, kubeVars, idVars,
                 serverVars>>
  /\ Len(stdoutChunks) + Len(stderrChunks) < MaxChunks
  /\ \E chunk \in ChunkValues : stderrChunks' = Append(stderrChunks, chunk)
  /\ UNCHANGED <<timeoutSeconds, settled, timer, timerDue, execNow, stdoutChunks,
                 execPromise, settleCalls, execLog>>

\* if (!settled) in the timer callback
TimerGuard == ~settled

\* setTimeout(() => { if (!settled) { settled = true; reject(timed out) } }, timeoutMs)
ExecTimerFire ==
  /\ UNCHANGED <<collectVars, pfVars, mainVars, toolVars, clientVars, kubeVars, idVars,
                 serverVars>>
  /\ timer = "armed"
  /\ execNow >= timerDue
  /\ timer' = "fired"
  /\ execLog' = Append(execLog, "timer")
  /\ IF TimerGuard
       THEN /\ settled' = TRUE
            /\ execPromise' = PromiseSettle(execPromise, "rejected", [error |-> "timeout"])
            /\ settleCalls' = settleCalls + 1
       ELSE UNCHANGED <<settled, execPromise, settleCalls>>
  /\ UNCHANGED <<timeoutSeconds, timerDue, execNow, stdoutChunks, stderrChunks>>

\* if (settled) return; in the status callback
StatusGuardAlways == TRUE
StatusGuard == ~settled

\* (status) => { if (settled) return; settled = true; clearTimeout(timer); resolve({...}) }
ExecStatusCallback ==
  /\ UNCHANGED <<collectVars, pfVars, mainVars, toolVars, clientVars, kubeVars, idVars,
                 serverVars>>
  /\ Len(SelectSeq(execLog, LAMBDA e : e = "status")) < MaxStatus
  /\ \E status \in Statuses :
       /\ execLog' = Append(execLog, "status")
       /\ IF StatusGuard
            THEN /\ settled' = TRUE
                 /\ timer' = IF timer = "armed" THEN "cleared" ELSE timer
                 /\ execPromise' = PromiseSettle(execPromise, "fulfilled",
                                      [stdout |-> ChunksToString(stdoutChunks),
                                       stderr |-> ChunksToString(stderrChunks),
                                       status |-> status])
                 /\ settleCalls' = settleCalls + 1
            ELSE UNCHANGED <<settled, timer, execPromise, settleCalls>>
  /\ UNCHANGED <<timeoutSeconds, timerDue, execNow, stdoutChunks, stderrChunks>>

\* .catch(err => { if (!settled) { settled = true; clearTimeout(timer); reject(err) } })
ExecConnectionRejected ==
  /\ UNCHANGED <<collectVars, pfVars, mainVars, toolVars, clientVars, kubeVars, idVars,
                 serverVars>>
  /\ ~(\E i \in 1..Len(execLog) : execLog[i] = "rejected")
  /\ execLog' = Append(execLog, "rejected")
  /\ IF ~settled
       THEN /\ settled' = TRUE
            /\ timer' = IF timer = "armed" THEN "cleared" ELSE timer
            /\ execPromise' = PromiseSettle(execPromise, "rejected", [error |-> "rejected"])
            /\ settleCalls' = settleCalls + 1
       ELSE UNCHANGED <<settled, timer, execPromise, settleCalls>>
  /\ UNCHANGED <<timeoutSeconds, timerDue, execNow, stdoutChunks, stderrChunks>>

ExecNext ==
  \/ ExecTick
  \/ ExecStdoutData
  \/ ExecStderrData
  \/ ExecTimerFire
  \/ ExecStatusCallback
  \/ ExecConnectionRejected

-----------------------------------------------------------------------------
\* collectStream

CollectStart(durationSeconds) ==
  /\ chunks = <<>>
  /\ collectTimer = "armed"
  /\ collectDue = durationSeconds
  /\ collectNow = 0
  /\ stream = "open"
  /\ collectPromise = PendingPromise
  /\ emitted = <<>>

CollectIdle == CollectStart(1)

CollectInit == \E d \in 1..MaxTimeout : CollectStart(d)

\* The clock advances; a timer that is due runs before the clock moves on.
CollectTick ==
  /\ UNCHANGED <<execVars, pfVars, mainVars, toolVars, clientVars, kubeVars, idVars,
                 serverVars>>
  /\ collectNow < MaxTime
  /\ ~(collectTimer = "armed" /\ collectNow >= collectDue)
  /\ collectNow' = collectNow + 1
  /\ UNCHANGED <<chunks, collectTimer, collectDue, stream, collectPromise,
                 emitted>>

\* chunks.push(chunk)
ChunksPushFront(list, chunk) == <<chunk>> \o list
ChunksPush(list, chunk) == Append(list, chunk)

\* stream.on('data', chunk => { chunks.push(chunk) }). The listener stays attached
\* after stream.destroy(); whether a destroyed PassThrough still hands over a
\* chunk is left open, so both are allowed.
CollectData ==
  /\ UNCHANGED <<execVars, pfVars, mainVars, toolVars, clientVars, kubeVars, idVars,
                 serverVars>>
  /\ stream \in {"open", "destroyed"}
  /\ Len(emitted) < MaxChunks
  /\ \E chunk \in ChunkValues :
       /\ chunks' = ChunksPush(chunks, chunk)
       /\ emitted' = Append(emitted, [chunk |-> chunk, late |-> collectTimer = "fired"])
  /\ UNCHANGED <<collectTimer, collectDue, collectNow, stream, collectPromise>>

\* clearTimeout(timer) in the 'end' listener
EndKeepsTimer(t) == t
EndClearsTimer(t) == IF t = "armed" THEN "cleared" ELSE t

\* stream.on('end', () => { clearTimeout(timer); resolve(concat(chunks)) })
CollectEnd ==
  /\ UNCHANGED <<execVars, pfVars, mainVars, toolVars, clientVars, kubeVars, idVars,
                 serverVars>>
  /\ stream = "open"
  /\ stream' = "ended"
  /\ collectTimer' = EndClearsTimer(collectTimer)
  /\ collectPromise' = PromiseSettle(collectPromise, "fulfilled", ChunksToString(chunks))
  /\ UNCHANGED <<chunks, collectDue, collectNow, emitted>>

\* stream.on('error', err => { clearTimeout(timer); reject(err) })
CollectError ==
  /\ UNCHANGED <<execVars, pfVars, mainVars, toolVars, clientVars, kubeVars, idVars,
                 serverVars>>
  /\ stream = "open"
  /\ stream' = "errored"
  /\ collectTimer' = IF collectTimer = "armed" THEN "cleared" ELSE collectTimer
  /\ collectPromise' = PromiseSettle(collectPromise, "rejected", [error |-> "stream"])
  /\ UNCHANGED <<chunks, collectDue, collectNow, emitted>>

\* setTimeout(() => { stream.destroy(); resolve(concat(chunks)) }, timeoutMs)
CollectTimerFire ==
  /\ UNCHANGED <<execVars, pfVars, mainVars, toolVars, clientVars, kubeVars, idVars,
                 serverVars>>
  /\ collectTimer = "armed"
  /\ collectNow >= collectDue
  /\ collectTimer' = "fired"
  /\ stream' = IF stream = "open" THEN "destroyed" ELSE stream
  /\ collectPromise' = PromiseSettle(collectPromise, "fulfilled", ChunksToString(chunks))
  /\ UNCHANGED <<chunks, collectDue, collectNow, emitted>>

CollectNext ==
  \/ CollectTick
  \/ CollectData
  \/ CollectEnd
  \/ CollectError
  \/ CollectTimerFire

-----------------------------------------------------------------------------
\* The port-forward registry: k8s_port_forward_start / _stop / _list.

\* The local ports a listener can be bound to.
Ports == {1, 2}
\* The tool invocations of a run, start and stop together, numbered in the
\* order in which their handlers are entered.
MaxCalls == 3

Calls == 1..MaxCalls
StartCalls == Calls
StopCalls == Calls

\* main(): the process runs the event loop from server.connect(transport) on.
\* Requests reach the handlers while the stdio transport is open; callbacks of
\* handlers already entered run as long as the process has not exited.
TransportOpen == process = "running"
ProcessAlive == process # "exited"

\* Invocation c is the next one to enter its handler.
NextToEnter(c) ==
  /\ startCall[c].pc = "idle" /\ stopCall[c].pc = "idle"
  /\ \A d \in Calls : d < c => (startCall[d].pc # "idle" \/ stopCall[d].pc # "idle")

\* Strings are sequences of characters.
Namespaces == {<<"d">>}
PodNames == {<<"p">>}
RemotePorts == {80}

Digits == <<"0", "1", "2", "3", "4", "5", "6", "7", "8", "9">>

\* `${n}` for a non-negative integer
RECURSIVE NumToString(_)
NumToString(n) ==
  IF n < 10 THEN <<Digits[n + 1]>>
  ELSE NumToString(n \div 10) \o <<Digits[(n % 10) + 1]>>

\* `${namespace}/${podName}:${remotePort}@${localPort}`
makeSessionId(namespace, podName, remotePort, localPort) ==
  namespace \o <<"/">> \o podName \o <<":">> \o NumToString(remotePort)
    \o <<"@">> \o NumToString(localPort)

\* The ids a stop request may carry.
SessionIds ==
  {makeSessionId(ns, pod, rp, lp) :
     ns \in Namespaces, pod \in PodNames, rp \in RemotePorts, lp \in Ports}

\* sessions.has(id) / sessions.get(id)
SessionsHas(map, id) == \E i \in 1..Len(map) : map[i].id = id
SessionsGet(map, id) == map[CHOOSE i \in 1..Len(map) : map[i].id = id]

\* sessions.set(id, entry): a new key goes to the end, an existing key keeps
\* its place and gets the new value.
SessionsSetNothing(map, id, entry) == map
SessionsSetEvict(map, id, entry) ==
  IF SessionsHas(map, id)
    THEN [i \in 1..Len(map) |-> IF map[i].id = id THEN entry ELSE map[i]]
    ELSE IF map = <<>> THEN <<entry>> ELSE Append(Tail(map), entry)
SessionsSetFront(map, id, entry) ==
  IF SessionsHas(map, id)
    THEN [i \in 1..Len(map) |-> IF map[i].id = id THEN entry ELSE map[i]]
    ELSE <<entry>> \o map
SessionsSet(map, id, entry) ==
  IF SessionsHas(map, id)
    THEN [i \in 1..Len(map) |-> IF map[i].id = id THEN entry ELSE map[i]]
    ELSE Append(map, entry)

\* sessions.delete(id)
SessionsDeleteNothing(map, id) == map
SessionsDeleteAll(map, id) == <<>>
SessionsDelete(map, id) == SelectSeq(map, LAMBDA e : e.id # id)

NoServer == [port |-> 0, state |-> "none", connected |-> FALSE]
NoResult == [isError |-> FALSE, text |-> "none"]
ErrorResult(text) == [isError |-> TRUE, text |-> text]

\* The local ports some socket of this process is listening on: the listeners
\* of the start calls and the probe servers of getFreePort.
PortsInUse ==
  {servers[c].port : c \in {d \in StartCalls : servers[d].state = "listening"}}
    \cup {startCall[c].probePort : c \in {d \in StartCalls : startCall[d].pc = "probing"}}

PfInit ==
  /\ sessions = <<>>
  /\ servers = [c \in StartCalls |-> NoServer]
  /\ startCall = [c \in StartCalls |->
       [pc |-> "idle", namespace |-> <<>>, podName |-> <<>>, remotePort |-> 0,
        localPort |-> 0, probePort |-> 0, assignedPort |-> 0, result |-> NoResult]]
  /\ stopCall = [c \in StopCalls |->
       [pc |-> "idle", sessionId |-> <<>>, server |-> 0, result |-> NoResult]]
  /\ registrations = 0

\* netServer.listen(port, '127.0.0.1', ...) of call c, whose record is `call`:
\* the bind succeeds when no socket is listening on the port; otherwise
\* netServer emits 'error', the promise rejects and the handler's catch returns
\* the error envelope.
Listen(c, call, port) ==
  IF port \in PortsInUse
    THEN /\ startCall' = [startCall EXCEPT ![c] =
              [call EXCEPT !.pc = "done", !.assignedPort = port,
                           !.result = ErrorResult("bind failed")]]
         /\ servers' = [servers EXCEPT ![c] =
              [port |-> port, state |-> "failed", connected |-> FALSE]]
    ELSE /\ startCall' = [startCall EXCEPT ![c] =
              [call EXCEPT !.pc = "bound", !.assignedPort = port]]
         /\ servers' = [servers EXCEPT ![c] =
              [port |-> port, state |-> "listening", connected |-> FALSE]]

\* getFreePort(), first half: srv.listen(0, '127.0.0.1', ...) binds a port the
\* system picks among the free ones; with none free, srv emits 'error' and the
\* handler's catch returns the error envelope.
getFreePort(c, call) ==
  /\ IF Ports \ PortsInUse = {}
       THEN startCall' = [startCall EXCEPT ![c] =
              [call EXCEPT !.pc = "done", !.result = ErrorResult("bind failed")]]
       ELSE \E p \in Ports \ PortsInUse :
              startCall' = [startCall EXCEPT ![c] =
                [call EXCEPT !.pc = "probing", !.probePort = p]]
  /\ UNCHANGED servers

\* The handler of k8s_port_forward_start is entered and reaches its first socket
\* operation (nothing can observe the handler in between): with localPort = 0
\* the probe server of getFreePort binds, otherwise netServer binds localPort.
StartInvoke(c, ns, pod, rp, lp) ==
  /\ UNCHANGED <<execVars, collectVars, mainVars, toolVars, clientVars, kubeVars, idVars,
                 serverVars>>
  /\ TransportOpen
  /\ NextToEnter(c)
  /\ LET call == [startCall[c] EXCEPT !.namespace = ns, !.podName = pod,
                                      !.remotePort = rp, !.localPort = lp]
     IN IF lp = 0 THEN getFreePort(c, call) ELSE Listen(c, call, lp)
  /\ UNCHANGED <<sessions, stopCall, registrations>>

\* getFreePort(), second half: the listening callback reads addr.port and closes
\* the probe server, which frees the port and resolves it; the handler goes on
\* to create netServer and asks it to listen on that port.
ProbeClose(c) ==
  /\ UNCHANGED <<execVars, collectVars, mainVars, toolVars, clientVars, kubeVars, idVars,
                 serverVars>>
  /\ ProcessAlive
  /\ startCall[c].pc = "probing"
  /\ startCall' = [startCall EXCEPT ![c] =
       [@ EXCEPT !.pc = "binding", !.assignedPort = startCall[c].probePort, !.probePort = 0]]
  /\ UNCHANGED <<sessions, servers, stopCall, registrations>>

\* netServer binds the port getFreePort returned.
StartBind(c) ==
  /\ UNCHANGED <<execVars, collectVars, mainVars, toolVars, clientVars, kubeVars, idVars,
                 serverVars>>
  /\ ProcessAlive
  /\ startCall[c].pc = "binding"
  /\ Listen(c, startCall[c], startCall[c].assignedPort)
  /\ UNCHANGED <<sessions, stopCall, registrations>>

\* The listening callback resolves; the handler computes the id, registers the
\* session and returns the success envelope.
StartRegister(c) ==
  /\ UNCHANGED <<execVars, collectVars, mainVars, toolVars, clientVars, kubeVars, idVars,
                 serverVars>>
  /\ ProcessAlive
  /\ startCall[c].pc = "bound"
  /\ LET call == startCall[c]
         sessionId == makeSessionId(call.namespace, call.podName, call.remotePort,
                                    call.assignedPort)
     IN /\ sessions' = SessionsSet(sessions, sessionId,
             [id |-> sessionId, server |-> c, namespace |-> call.namespace,
              podName |-> call.podName, localPort |-> call.assignedPort,
              remotePort |-> call.remotePort, createdAt |-> registrations])
        /\ startCall' = [startCall EXCEPT ![c] =
             [@ EXCEPT !.pc = "done",
                       !.result = [isError |-> FALSE, text |-> "started",
                                   sessionId |-> sessionId,
                                   localPort |-> call.assignedPort]]]
  /\ registrations' = registrations + 1
  /\ UNCHANGED <<servers, stopCall>>

\* A local client connects to a listening netServer; the connection callback
\* asks portForward.portForward for a tunnel to the pod and splices. When the
\* tunnel cannot be negotiated the promise rejects and the socket is destroyed.
\* `connected` says that the server has accepted connections that are still open.
ConnOpen(s) ==
  /\ UNCHANGED <<execVars, collectVars, mainVars, toolVars, clientVars, kubeVars, idVars,
                 serverVars>>
  /\ ProcessAlive
  /\ servers[s].state = "listening"
  /\ ~servers[s].connected
  /\ servers' = [servers EXCEPT ![s] = [@ EXCEPT !.connected = podReachable]]
  /\ UNCHANGED <<sessions, startCall, stopCall, registrations>>

\* The last open connection of a server ends: the client or the remote side
\* closes it, or the tunnel fails and the socket is destroyed.
ConnClose(s) ==
  /\ UNCHANGED <<execVars, collectVars, mainVars, toolVars, clientVars, kubeVars, idVars,
                 serverVars>>
  /\ ProcessAlive
  /\ servers[s].connected
  /\ servers' = [servers EXCEPT ![s] = [@ EXCEPT !.connected = FALSE]]
  /\ UNCHANGED <<sessions, startCall, stopCall, registrations>>

\* server.close(): the server stops listening at once; its accepted connections
\* stay open.
ServerClose(sv) == [sv EXCEPT !.state = "closed"]

\* The callback given to server.close(cb) runs once the server has no open
\* connection left.
CloseCallbackReady(s) == servers[s].state = "closed" /\ ~servers[s].connected

\* The handler of k8s_port_forward_stop up to its await: a lookup miss returns
\* the error envelope; otherwise session.server.close(...) is called.
StopInvokeLenient(c, id) ==
  /\ UNCHANGED <<execVars, collectVars, mainVars, toolVars, clientVars, kubeVars, idVars,
                 serverVars>>
  /\ TransportOpen
  /\ NextToEnter(c)
  /\ IF ~SessionsHas(sessions, id)
       THEN /\ stopCall' = [stopCall EXCEPT ![c] =
                 [@ EXCEPT !.pc = "done", !.sessionId = id,
                           !.result = [isError |-> FALSE, text |-> "stopped"]]]
            /\ UNCHANGED servers
       ELSE LET session == SessionsGet(sessions, id) IN
            /\ stopCall' = [stopCall EXCEPT ![c] =
                 [@ EXCEPT !.pc = "closing", !.sessionId = id, !.server = session.server]]
            /\ servers' = [servers EXCEPT ![session.server] = ServerClose(@)]
  /\ UNCHANGED <<sessions, startCall, registrations>>
StopInvoke(c, id) ==
  /\ UNCHANGED <<execVars, collectVars, mainVars, toolVars, clientVars, kubeVars, idVars,
                 serverVars>>
  /\ TransportOpen
  /\ NextToEnter(c)
  /\ IF ~SessionsHas(sessions, id)
       THEN /\ stopCall' = [stopCall EXCEPT ![c] =
                 [@ EXCEPT !.pc = "done", !.sessionId = id,
                           !.result = [isError |-> TRUE, text |-> "not found"]]]
            /\ UNCHANGED servers
       ELSE LET session == SessionsGet(sessions, id) IN
            /\ stopCall' = [stopCall EXCEPT ![c] =
                 [@ EXCEPT !.pc = "closing", !.sessionId = id, !.server = session.server]]
            /\ servers' = [servers EXCEPT ![session.server] = ServerClose(@)]
  /\ UNCHANGED <<sessions, startCall, registrations>>

\* The close callback resolves; the handler deletes the entry and returns the
\* acknowledgment.
StopResume(c) ==
  /\ UNCHANGED <<execVars, collectVars, mainVars, toolVars, clientVars, kubeVars, idVars,
                 serverVars>>
  /\ ProcessAlive
  /\ stopCall[c].pc = "closing"
  /\ CloseCallbackReady(stopCall[c].server)
  /\ sessions' = SessionsDelete(sessions, stopCall[c].sessionId)
  /\ stopCall' = [stopCall EXCEPT ![c] =
       [@ EXCEPT !.pc = "done", !.result = [isError |-> FALSE, text |-> "stopped"]]]
  /\ UNCHANGED <<servers, startCall, registrations>>

\* One element of the array k8s_port_forward_list returns.
SessionSummary(s) ==
  [sessionId |-> s.id, namespace |-> s.namespace, podName |-> s.podName,
   localPort |-> s.localPort, remotePort |-> s.remotePort, createdAt |-> s.createdAt]

\* The array k8s_port_forward_list returns when it runs in the current state.
ListResponse == [i \in 1..Len(sessions) |-> SessionSummary(sessions[i])]

\* The handler of k8s_port_forward_list: it reads the map and writes nothing.
List ==
  /\ UNCHANGED <<execVars, collectVars, mainVars, toolVars, clientVars, kubeVars, idVars,
                 serverVars>>
  /\ TransportOpen
  /\ UNCHANGED <<sessions, servers, startCall, stopCall, registrations>>

PfNext ==
  \/ \E c \in StartCalls, ns \in Namespaces, pod \in PodNames, rp \in RemotePorts,
        lp \in {0} \cup Ports : StartInvoke(c, ns, pod, rp, lp)
  \/ \E c \in StartCalls : ProbeClose(c)
  \/ \E c \in StartCalls : StartBind(c)
  \/ \E c \in StartCalls : StartRegister(c)
  \/ \E s \in StartCalls : ConnOpen(s)
  \/ \E s \in StartCalls : ConnClose(s)
  \/ \E c \in StopCalls, id \in SessionIds : StopInvoke(c, id)
  \/ \E c \in StopCalls : StopResume(c)
  \/ List

-----------------------------------------------------------------------------
\* One tool handler, as the sequence of the calls it awaits inside (or outside)
\* its try block, and the faults those calls raise.

\* The values a call may throw or reject with: an ApiException of the cluster
\* client (with a body that has a message, a body that has none, or no body),
\* an Error, or a value that is not an Error.
BodyWithMessage == [message |-> "m"]
BodyWithoutMessage == [reason |-> "r"]
NoBody == [undefined |-> TRUE]
StatusCodes == {404, 500}
Errors ==
  [class : {"ApiException"}, code : StatusCodes,
   body : {BodyWithMessage, BodyWithoutMessage, NoBody}, message : {"http"}]
    \cup [class : {"Error"}, message : {"e", ""}]
    \cup [class : {"other"}, value : {"s"}]

\* formatK8sError(err)
formatK8sError(err) ==
  IF err.class = "ApiException"
    THEN IF err.body = BodyWithMessage
           THEN <<"Kubernetes API error (", err.code, "): ", err.body.message>>
           ELSE <<"Kubernetes API error (", err.code, "): ", "JSON", err.body>>
    ELSE IF err.class = "Error" THEN <<err.message>>
    ELSE <<err.value>>

\* err instanceof Error ? err.message : String(err), the catch of k8s_copy_file
CopyFileMessage(err) ==
  IF err.class \in {"ApiException", "Error"} THEN <<err.message>> ELSE <<err.value>>

Tools ==
  {"k8s_exec", "k8s_copy_file", "k8s_get_pod_logs", "k8s_list_hpas",
   "k8s_port_forward_start", "k8s_port_forward_stop", "k8s_port_forward_list"}

\* The calls a handler makes, in order.
HandlerCalls(t) ==
  CASE t = "k8s_exec" -> <<"getKubeConfig", "execInPod">>
    [] t = "k8s_copy_file" -> <<"runCommand">>
    [] t = "k8s_get_pod_logs" -> <<"getKubeConfig", "log.log", "collectStream">>
    [] t = "k8s_list_hpas" -> <<"getAutoscalingV2Api", "listNamespacedHorizontalPodAutoscaler">>
    [] t = "k8s_port_forward_start" -> <<"getKubeConfig", "getFreePort", "netServer.listen">>
    [] t = "k8s_port_forward_stop" -> <<"server.close">>
    [] t = "k8s_port_forward_list" -> <<>>

\* What a call may throw or reject with. server.close(cb) does not throw, and
\* the promise around it is resolved by a callback that ignores its argument.
Faults(call) == IF call = "server.close" THEN {} ELSE Errors

\* Whether the handler's calls are inside try { ... } catch (err) { ... }.
HasTryCatch(t) == t \notin {"k8s_port_forward_stop", "k8s_port_forward_list"}

NoFault == [class |-> "none"]
Running == [kind |-> "running"]
Returned(envelope, fault) == [kind |-> "returned", envelope |-> envelope, fault |-> fault]
Threw(err) == [kind |-> "threw", error |-> err]

\* How handler t ends when one of its calls raises err: the catch block
\* returns the error envelope; without a try block the fault leaves the handler.
CatchNothing(t, err) == Threw(err)
Catch(t, err) ==
  IF HasTryCatch(t)
    THEN Returned([isError |-> TRUE,
                   text |-> IF t = "k8s_copy_file" THEN CopyFileMessage(err)
                            ELSE formatK8sError(err)], err)
    ELSE Threw(err)

ToolStart(t) ==
  /\ tool = t
  /\ callIndex = 0
  /\ outcome = Running

ToolIdle == ToolStart("k8s_port_forward_list")

DispatchInit == \E t \in Tools : ToolStart(t)

\* The next call of the handler returns.
CallReturns ==
  /\ UNCHANGED <<execVars, collectVars, pfVars, mainVars, clientVars, kubeVars, idVars,
                 serverVars>>
  /\ outcome = Running
  /\ callIndex < Len(HandlerCalls(tool))
  /\ callIndex' = callIndex + 1
  /\ UNCHANGED <<tool, outcome>>

\* The next call of the handler throws or rejects.
CallThrows ==
  /\ UNCHANGED <<execVars, collectVars, pfVars, mainVars, clientVars, kubeVars, idVars,
                 serverVars>>
  /\ outcome = Running
  /\ callIndex < Len(HandlerCalls(tool))
  /\ \E err \in Faults(HandlerCalls(tool)[callIndex + 1]) :
       outcome' = Catch(tool, err)
  /\ UNCHANGED <<tool, callIndex>>

\* if (!session) return { ..., isError: true } of k8s_port_forward_stop, before
\* any call.
LookupMiss ==
  /\ UNCHANGED <<execVars, collectVars, pfVars, mainVars, clientVars, kubeVars, idVars,
                 serverVars>>
  /\ outcome = Running
  /\ tool = "k8s_port_forward_stop"
  /\ callIndex = 0
  /\ outcome' = Returned([isError |-> TRUE, text |-> <<"No active port-forward session found">>],
                         NoFault)
  /\ UNCHANGED <<tool, callIndex>>

\* All calls have returned: the handler returns its result without isError.
HandlerReturns ==
  /\ UNCHANGED <<execVars, collectVars, pfVars, mainVars, clientVars, kubeVars, idVars,
                 serverVars>>
  /\ outcome = Running
  /\ callIndex = Len(HandlerCalls(tool))
  /\ outcome' = Returned([isError |-> FALSE, text |-> <<"result">>], NoFault)
  /\ UNCHANGED <<tool, callIndex>>

DispatchNext ==
  \/ CallReturns
  \/ CallThrows
  \/ LookupMiss
  \/ HandlerReturns

-----------------------------------------------------------------------------
\* What the handlers around execInPod and collectStream see.

\* The exec channel (the WebSocket exec.exec opens). execInPod keeps no
\* reference to it and never closes it: it is open until the remote side ends
\* it, after the terminal status, or until the connection attempt fails.
ExecChannelOpen == \A i \in 1..Len(execLog) : execLog[i] \notin {"status", "rejected"}

\* The handler of k8s_exec from `await execInPod(...)` on: the JSON payload
\* { stdout, stderr, exitStatus } of a result, whatever its status, or the
\* error envelope of the catch, whose text is formatK8sError(err).
ExecHandlerFailureIsError ==
  CASE execPromise.state = "pending" -> NoResult
    [] execPromise.state = "fulfilled" ->
         IF execPromise.value.status = "Failure"
           THEN ErrorResult(<<"Failure">>)
           ELSE [isError |-> FALSE,
                 payload |-> [stdout |-> execPromise.value.stdout,
                              stderr |-> execPromise.value.stderr,
                              exitStatus |-> execPromise.value.status]]
    [] execPromise.state = "rejected" ->
         ErrorResult(formatK8sError([class |-> "Error",
                                     message |-> execPromise.value.error]))
ExecHandlerResult ==
  CASE execPromise.state = "pending" -> NoResult
    [] execPromise.state = "fulfilled" ->
         [isError |-> FALSE,
          payload |-> [stdout |-> execPromise.value.stdout,
                       stderr |-> execPromise.value.stderr,
                       exitStatus |-> execPromise.value.status]]
    [] execPromise.state = "rejected" ->
         ErrorResult(formatK8sError([class |-> "Error",
                                     message |-> execPromise.value.error]))

\* The handler of k8s_get_pod_logs from `await collectStream(...)` on:
\* return { text: text || '(no logs)' }, or the error envelope of the catch.
LogsHandlerSwallow ==
  CASE collectPromise.state = "pending" -> NoResult
    [] collectPromise.state = "fulfilled" ->
         [isError |-> FALSE,
          text |-> IF collectPromise.value = <<>> THEN "(no logs)" ELSE collectPromise.value]
    [] collectPromise.state = "rejected" -> [isError |-> FALSE, text |-> "(no logs)"]
LogsHandlerResult ==
  CASE collectPromise.state = "pending" -> NoResult
    [] collectPromise.state = "fulfilled" ->
         [isError |-> FALSE,
          text |-> IF collectPromise.value = <<>> THEN "(no logs)" ELSE collectPromise.value]
    [] collectPromise.state = "rejected" -> ErrorResult(<<collectPromise.value.error>>)

-----------------------------------------------------------------------------
\* The end of the process. main() registers the tools and connects the stdio
\* transport; it installs no handler for a signal, for the end of stdin or for
\* 'exit', so nothing of this program runs when the process ends.

MainIdle ==
  /\ process = "running"
  /\ podReachable = TRUE

\* The peer closes the control transport (end of stdin). No listener of this
\* program reacts; the handlers in flight go on.
TransportClose ==
  /\ UNCHANGED <<execVars, collectVars, pfVars, toolVars, clientVars, kubeVars, idVars,
                 serverVars>>
  /\ process = "running"
  /\ process' = "transportClosed"
  /\ UNCHANGED podReachable

\* What keeps the event loop alive once stdin has ended: a listening server,
\* an open connection, a handler waiting for a socket callback.
EventLoopBusy ==
  \/ \E c \in StartCalls : servers[c].state = "listening" \/ servers[c].connected
  \/ \E c \in StartCalls : startCall[c].pc \in {"probing", "binding", "bound"}
  \/ \E c \in StopCalls : stopCall[c].pc = "closing"

\* The process ends when the event loop has nothing left to wait for.
EventLoopDrained ==
  /\ UNCHANGED <<execVars, collectVars, pfVars, toolVars, clientVars, kubeVars, idVars,
                 serverVars>>
  /\ process = "transportClosed"
  /\ ~EventLoopBusy
  /\ process' = "exited"
  /\ UNCHANGED podReachable

\* The process is asked to terminate (SIGTERM, SIGINT): with no handler
\* installed the default disposition ends it at once; `servers` and `sessions`
\* keep the values they had at that instant.
Terminate ==
  /\ UNCHANGED <<execVars, collectVars, pfVars, toolVars, clientVars, kubeVars, idVars,
                 serverVars>>
  /\ ProcessAlive
  /\ process' = "exited"
  /\ UNCHANGED podReachable

LifecycleNext ==
  \/ PfNext
  \/ TransportClose
  \/ EventLoopDrained
  \/ Terminate

-----------------------------------------------------------------------------
\* McpClient, the JSON-RPC client the smoke test drives the server with.

\* The test issues at most MaxRequests requests and reads at most MaxLines lines.
MaxRequests == 2
MaxLines == 2

RequestIds == 1..MaxRequests

\* A line of the server's stdout: empty after trim(), not JSON, a message
\* without id, or a response with an id (that of a request of the test, or
\* MaxRequests + 1, which no request ever has) and with or without `error`.
Lines ==
  [kind : {"response"}, id : 1..(MaxRequests + 1), error : BOOLEAN]
    \cup [kind : {"blank", "garbage", "notification"}, id : {0}, error : {FALSE}]
NoLine == [kind |-> "none", id |-> 0, error |-> FALSE]

NoRequest == [promise |-> PendingPromise, timer |-> "none", calls |-> 0]

\* this.pending.set(id, { resolve: v => { clearTimeout(timer); resolve(v) },
\*                        reject:  e => { clearTimeout(timer); reject(e) } })
WrappedSettle(r, st, val) ==
  [promise |-> PromiseSettle(r.promise, st, val),
   timer |-> IF r.timer = "armed" THEN "cleared" ELSE r.timer,
   calls |-> r.calls + 1]

ClientStart ==
  /\ pending = {}
  /\ nextId = 1
  /\ requestState = [id \in RequestIds |-> NoRequest]
  /\ proc = "running"
  /\ received = 0
  /\ lastLine = NoLine

\* request(method, params, timeoutMs) up to the write to stdin
ClientRequest ==
  /\ UNCHANGED <<execVars, collectVars, pfVars, mainVars, toolVars, kubeVars, idVars,
                 serverVars>>
  /\ nextId <= MaxRequests
  /\ nextId' = nextId + 1
  /\ requestState' = [requestState EXCEPT ![nextId] =
       [promise |-> PendingPromise, timer |-> "armed", calls |-> 0]]
  /\ pending' = pending \cup {nextId}
  /\ UNCHANGED <<proc, received, lastLine>>

\* if (msg.id != null && this.pending.has(msg.id))
LineMatchesIssued(msg) == msg.kind = "response" /\ msg.id < nextId
LineMatches(msg) == msg.kind = "response" /\ msg.id \in pending

\* rl.on('line', ...). The lines of the child's stdout are delivered before
\* its 'close' event.
ClientLine(msg) ==
  /\ UNCHANGED <<execVars, collectVars, pfVars, mainVars, toolVars, kubeVars, idVars,
                 serverVars>>
  /\ proc = "running"
  /\ received < MaxLines
  /\ received' = received + 1
  /\ lastLine' = msg
  /\ IF LineMatches(msg)
       THEN /\ pending' = pending \ {msg.id}
            /\ requestState' = [requestState EXCEPT ![msg.id] =
                 IF msg.error
                   THEN WrappedSettle(@, "rejected", [error |-> "rpc"])
                   ELSE WrappedSettle(@, "fulfilled", [result |-> msg.id])]
       ELSE UNCHANGED <<pending, requestState>>
  /\ UNCHANGED <<nextId, proc>>

\* setTimeout(() => { this.pending.delete(id); reject(new Error(`Timeout ...`)) }, timeoutMs)
ClientTimeout(id) ==
  /\ UNCHANGED <<execVars, collectVars, pfVars, mainVars, toolVars, kubeVars, idVars,
                 serverVars>>
  /\ requestState[id].timer = "armed"
  /\ pending' = pending \ {id}
  /\ requestState' = [requestState EXCEPT ![id] =
       [promise |-> PromiseSettle(@.promise, "rejected", [error |-> "timeout"]),
        timer |-> "fired",
        calls |-> @.calls + 1]]
  /\ UNCHANGED <<nextId, proc, received, lastLine>>

\* for (const [id, { reject }] of this.pending) reject(new Error(`Server exited ...`))
CloseRejectsNone(r) == r
CloseRejects(r) == WrappedSettle(r, "rejected", [error |-> "closed"])

\* proc.on('close', ...)
ClientClose ==
  /\ UNCHANGED <<execVars, collectVars, pfVars, mainVars, toolVars, kubeVars, idVars,
                 serverVars>>
  /\ proc = "running"
  /\ proc' = "closed"
  /\ requestState' = [id \in RequestIds |->
       IF id \in pending THEN CloseRejects(requestState[id]) ELSE requestState[id]]
  /\ pending' = {}
  /\ UNCHANGED <<nextId, received, lastLine>>

ClientNext ==
  \/ ClientRequest
  \/ \E msg \in Lines : ClientLine(msg)
  \/ \E id \in RequestIds : ClientTimeout(id)
  \/ ClientClose

-----------------------------------------------------------------------------
\* The kubeconfig cache (getKubeConfig), runCommand and k8s_use_context.

\* At most MaxSwitches k8s_use_context invocations.
MaxSwitches == 2
\* Without an invalidation in between, one load serves every call.
MaxLoads == MaxSwitches + 1

Contexts == {"a", "b"}

\* null, and a loaded k8s.KubeConfig: which load made it and the
\* current-context it read from the file.
NoKubeConfig == [id |-> 0, context |-> "none"]

KubeIdle ==
  /\ kubeConfig = NoKubeConfig
  /\ loads = 0
  /\ currentContext = "a"
  /\ handle = NoKubeConfig
  /\ useContext = [pc |-> "idle", name |-> "none", written |-> FALSE,
                   out |-> <<>>, run |-> <<>>, result |-> NoResult]
  /\ switches = 0

KubeInit ==
  /\ kubeConfig = NoKubeConfig
  /\ loads = 0
  /\ currentContext \in Contexts
  /\ handle = NoKubeConfig
  /\ useContext = [pc |-> "idle", name |-> "none", written |-> FALSE,
                   out |-> <<>>, run |-> <<>>, result |-> NoResult]
  /\ switches = 0

\* if (!kubeConfig)
NeedsLoadAlways == TRUE
NeedsLoad == kubeConfig = NoKubeConfig

\* getKubeConfig(), called by a tool handler
getKubeConfig ==
  /\ UNCHANGED <<execVars, collectVars, pfVars, mainVars, toolVars, clientVars, idVars,
                 serverVars>>
  /\ IF NeedsLoad
       THEN /\ loads < MaxLoads
            /\ loads' = loads + 1
            /\ kubeConfig' = [id |-> loads + 1, context |-> currentContext]
       ELSE UNCHANGED <<loads, kubeConfig>>
  /\ handle' = kubeConfig'
  /\ UNCHANGED <<currentContext, useContext, switches>>

\* invalidateKubeConfig() drops the cached handle.
invalidateKubeConfig == NoKubeConfig

\* How the subprocess execa started ended: it exited with a code, having
\* written stdout and stderr; it could not be spawned (an ExecaError without
\* output); or something that is not an ExecaError was thrown.
ExecaOutcomes ==
  [kind : {"exit"}, code : {0, 1}, stdout : {"", "o"}, stderr : {"", "e"}, message : {"m"}]
    \cup [kind : {"spawn"}, code : {-1}, stdout : {""}, stderr : {""}, message : {"m"}]
    \cup [kind : {"other"}, code : {-1}, stdout : {""}, stderr : {""}, message : {"s"}]

\* runCommand(command, args), given how the subprocess ended
runCommandStdoutFirst(command, args, out) ==
  IF out.kind = "exit" /\ out.code = 0
    THEN [threw |-> FALSE, stdout |-> out.stdout, stderr |-> out.stderr]
    ELSE IF out.kind \in {"exit", "spawn"}
      THEN [threw |-> TRUE,
            error |-> [class |-> "Error",
                       message |-> <<"Command '", command, args, "' failed: ",
                                     IF out.stdout # "" THEN out.stdout
                                     ELSE IF out.stderr # "" THEN out.stderr
                                     ELSE out.message>>]]
      ELSE [threw |-> TRUE, error |-> [class |-> "other", value |-> out.message]]
runCommand(command, args, out) ==
  IF out.kind = "exit" /\ out.code = 0
    THEN [threw |-> FALSE, stdout |-> out.stdout, stderr |-> out.stderr]
    ELSE IF out.kind \in {"exit", "spawn"}
      THEN [threw |-> TRUE,
            error |-> [class |-> "Error",
                       message |-> <<"Command '", command, args, "' failed: ",
                                     IF out.stderr # "" THEN out.stderr
                                     ELSE IF out.stdout # "" THEN out.stdout
                                     ELSE out.message>>]]
      ELSE [threw |-> TRUE, error |-> [class |-> "other", value |-> out.message]]

\* The handler of k8s_use_context up to `await runCommand('kubectl', ...)`.
UseContextInvoke(name, out) ==
  /\ UNCHANGED <<execVars, collectVars, pfVars, mainVars, toolVars, clientVars, idVars,
                 serverVars>>
  /\ useContext.pc # "running"
  /\ switches < MaxSwitches
  /\ switches' = switches + 1
  /\ useContext' = [pc |-> "running", name |-> name, written |-> FALSE,
                    out |-> out, run |-> <<>>, result |-> NoResult]
  /\ UNCHANGED <<kubeConfig, loads, currentContext, handle>>

\* kubectl config use-context <name> rewrites current-context before it exits with 0.
KubectlSwitch ==
  /\ UNCHANGED <<execVars, collectVars, pfVars, mainVars, toolVars, clientVars, idVars,
                 serverVars>>
  /\ useContext.pc = "running"
  /\ useContext.out.kind = "exit" /\ useContext.out.code = 0
  /\ ~useContext.written
  /\ currentContext' = useContext.name
  /\ useContext' = [useContext EXCEPT !.written = TRUE]
  /\ UNCHANGED <<kubeConfig, loads, handle, switches>>

\* [result.stdout, result.stderr].filter(Boolean).join('\n') || `Switched to context '${name}'.`
UseContextText(name, run) ==
  IF run.stdout = "" /\ run.stderr = ""
    THEN <<"Switched to context '", name, "'.">>
    ELSE SelectSeq(<<run.stdout, run.stderr>>, LAMBDA x : x # "")

\* err instanceof Error ? err.message : String(err)
UseContextMessage(err) ==
  IF err.class = "Error" THEN err.message ELSE <<err.value>>

\* The handler of k8s_use_context from its await on.
UseContextResume ==
  /\ UNCHANGED <<execVars, collectVars, pfVars, mainVars, toolVars, clientVars, idVars,
                 serverVars>>
  /\ useContext.pc = "running"
  /\ (useContext.out.kind = "exit" /\ useContext.out.code = 0) => useContext.written
  /\ LET run == runCommand("kubectl", <<"config", "use-context", useContext.name>>,
                           useContext.out)
     IN IF run.threw
          THEN /\ useContext' = [useContext EXCEPT !.pc = "done", !.run = run,
                                   !.result = ErrorResult(UseContextMessage(run.error))]
               /\ UNCHANGED kubeConfig
          ELSE /\ kubeConfig' = invalidateKubeConfig
               /\ useContext' = [useContext EXCEPT !.pc = "done", !.run = run,
                                   !.result = [isError |-> FALSE,
                                               text |-> UseContextText(useContext.name, run)]]
  /\ UNCHANGED <<loads, currentContext, handle, switches>>

KubeNext ==
  \/ getKubeConfig
  \/ \E name \in Contexts, out \in ExecaOutcomes : UseContextInvoke(name, out)
  \/ KubectlSwitch
  \/ UseContextResume

-----------------------------------------------------------------------------
\* makeSessionId over the arguments the schema of k8s_port_forward_start
\* accepts: namespace and podName are z.string(), any string.

\* Names of up to MaxNameLen characters.
MaxNameLen == 2
NameChars == {"a", "/"}
Names == UNION {[1..n -> NameChars] : n \in 1..MaxNameLen}
StartArguments ==
  [namespace : Names, podName : Names, remotePort : RemotePorts, localPort : Ports]

IdIdle ==
  /\ idArgs = <<>>
  /\ idResult = <<>>

IdInit ==
  /\ idArgs \in StartArguments \X StartArguments
  /\ idResult = <<>>

\* const id = makeSessionId(namespace, podName, remotePort, assignedPort), for both tuples
MakeIds ==
  /\ UNCHANGED <<execVars, collectVars, pfVars, mainVars, toolVars, clientVars, kubeVars,
                 serverVars>>
  /\ idArgs # <<>>
  /\ idResult = <<>>
  /\ idResult' = [i \in 1..2 |->
       makeSessionId(idArgs[i].namespace, idArgs[i].podName, idArgs[i].remotePort,
                     idArgs[i].localPort)]
  /\ UNCHANGED idArgs

IdNext == MakeIds

-----------------------------------------------------------------------------
\* The server with a k8s_exec in flight. Every step of the model is one
\* callback of the event loop, run to completion; the handler of k8s_exec is
\* suspended at `await execInPod(...)` between them, and the transport hands a
\* request to its handler when it has read it, whatever handlers are suspended.

\* At most MaxListCalls k8s_port_forward_list requests are submitted.
MaxListCalls == 1

ServerIdle ==
  /\ inbox = <<>>
  /\ responses = <<>>

ResponsesOf(t) == SelectSeq(responses, LAMBDA r : r.tool = t)

\* A k8s_port_forward_list request arrives on stdin, after the k8s_exec request.
ServerSubmitList ==
  /\ UNCHANGED <<execVars, collectVars, pfVars, mainVars, toolVars, clientVars, kubeVars,
                 idVars>>
  /\ TransportOpen
  /\ Len(inbox) + Len(ResponsesOf("k8s_port_forward_list")) < MaxListCalls
  /\ inbox' = Append(inbox, "k8s_port_forward_list")
  /\ UNCHANGED responses

\* The handler of k8s_port_forward_list has no await: it runs to its return
\* and the response is written.
ServerDispatchListAfterExec ==
  /\ UNCHANGED <<execVars, collectVars, pfVars, mainVars, toolVars, clientVars, kubeVars,
                 idVars>>
  /\ inbox # <<>>
  /\ ResponsesOf("k8s_exec") # <<>>
  /\ inbox' = Tail(inbox)
  /\ responses' = Append(responses,
       [tool |-> Head(inbox), result |-> [isError |-> FALSE, list |-> ListResponse]])
ServerDispatchList ==
  /\ UNCHANGED <<execVars, collectVars, pfVars, mainVars, toolVars, clientVars, kubeVars,
                 idVars>>
  /\ inbox # <<>>
  /\ inbox' = Tail(inbox)
  /\ responses' = Append(responses,
       [tool |-> Head(inbox), result |-> [isError |-> FALSE, list |-> ListResponse]])

\* The handler of k8s_exec resumes when the promise of execInPod has settled,
\* and its envelope is written.
ServerExecRespond ==
  /\ UNCHANGED <<execVars, collectVars, pfVars, mainVars, toolVars, clientVars, kubeVars,
                 idVars>>
  /\ execPromise.state # "pending"
  /\ ResponsesOf("k8s_exec") = <<>>
  /\ responses' = Append(responses, [tool |-> "k8s_exec", result |-> ExecHandlerResult])
  /\ UNCHANGED inbox

\* The command of the k8s_exec sleeps and writes nothing.
ServerNext ==
  \/ ExecTick
  \/ ExecTimerFire
  \/ ExecStatusCallback
  \/ ExecConnectionRejected
  \/ ServerSubmitList
  \/ ServerDispatchList
  \/ ServerExecRespond

-----------------------------------------------------------------------------
\* Specifications.

Init ==
  /\ ExecIdle /\ CollectIdle /\ PfInit /\ MainIdle /\ ToolIdle
  /\ ClientStart /\ KubeIdle /\ IdIdle /\ ServerIdle
Next == PfNext
Spec == Init /\ [][Next]_vars

\* The registry with the end of the process, against a pod that is reachable
\* or not.
LifecycleInit ==
  /\ ExecIdle /\ CollectIdle /\ PfInit /\ ToolIdle
  /\ ClientStart /\ KubeIdle /\ IdIdle /\ ServerIdle
  /\ process = "running"
  /\ podReachable \in BOOLEAN
LifecycleSpec == LifecycleInit /\ [][LifecycleNext]_vars

DispatchSpecInit ==
  /\ ExecIdle /\ CollectIdle /\ PfInit /\ MainIdle /\ DispatchInit
  /\ ClientStart /\ KubeIdle /\ IdIdle /\ ServerIdle
DispatchSpec == DispatchSpecInit /\ [][DispatchNext]_vars

ExecSpecInit ==
  /\ ExecInit /\ CollectIdle /\ PfInit /\ MainIdle /\ ToolIdle
  /\ ClientStart /\ KubeIdle /\ IdIdle /\ ServerIdle
ExecSpec == ExecSpecInit /\ [][ExecNext]_vars
\* The clock advances and the event loop runs a timer that is due.
FairExecSpec == ExecSpec /\ WF_vars(ExecTick) /\ WF_vars(ExecTimerFire)

CollectSpecInit ==
  /\ ExecIdle /\ CollectInit /\ PfInit /\ MainIdle /\ ToolIdle
  /\ ClientStart /\ KubeIdle /\ IdIdle /\ ServerIdle
CollectSpec == CollectSpecInit /\ [][CollectNext]_vars
FairCollectSpec == CollectSpec /\ WF_vars(CollectTick) /\ WF_vars(CollectTimerFire)

\* The client of the smoke test against a server that answers, stays silent
\* or exits.
ClientSpec == Init /\ [][ClientNext]_vars

\* Tool handlers calling getKubeConfig around k8s_use_context invocations.
KubeSpecInit ==
  /\ ExecIdle /\ CollectIdle /\ PfInit /\ MainIdle /\ ToolIdle
  /\ ClientStart /\ KubeInit /\ IdIdle /\ ServerIdle
KubeSpec == KubeSpecInit /\ [][KubeNext]_vars

\* makeSessionId applied to two argument tuples.
IdSpecInit ==
  /\ ExecIdle /\ CollectIdle /\ PfInit /\ MainIdle /\ ToolIdle
  /\ ClientStart /\ KubeIdle /\ IdInit /\ ServerIdle
IdSpec == IdSpecInit /\ [][IdNext]_vars

\* A k8s_exec in flight and k8s_port_forward_list requests submitted after it.
ServerSpecInit ==
  /\ ExecInit /\ CollectIdle /\ PfInit /\ MainIdle /\ ToolIdle
  /\ ClientStart /\ KubeIdle /\ IdIdle /\ ServerIdle
ServerSpec == ServerSpecInit /\ [][ServerNext]_vars

-----------------------------------------------------------------------------
\* Properties of execInPod (ExecSpec, FairExecSpec).

\* What the promise holds when `event` is the first of the three events.
SettledBy(event) ==
  CASE event = "timer" ->
         execPromise.state = "rejected" /\ execPromise.value = [error |-> "timeout"]
    [] event = "rejected" ->
         execPromise.state = "rejected" /\ execPromise.value = [error |-> "rejected"]
    [] event = "status" ->
         execPromise.state = "fulfilled"

\* C1: in every ordering of the timer firing, the status callback and the
\* rejection of the exec connection, resolve/reject is called exactly once, by
\* the first event to occur; the promise holds that event's outcome, and once
\* settled neither its outcome nor its data changes, whatever event or chunk
\* comes later.
C1_SettledOnceByFirstEvent ==
  /\ [](IF execLog = <<>>
          THEN settleCalls = 0 /\ execPromise.state = "pending"
          ELSE settleCalls = 1 /\ SettledBy(execLog[1]))
  /\ [][execPromise.state # "pending" => execPromise' = execPromise]_vars

\* C1 witness: all three events have occurred, the timer first; the status
\* callback and the rejection came after the settlement.
C1_Witness ==
  /\ Len(execLog) = 3
  /\ execLog[1] = "timer"
  /\ settleCalls = 1
  /\ execPromise.value = [error |-> "timeout"]

\* C2: the timer is due timeoutSeconds after the invocation started and no
\* data chunk moves it: once that instant has passed the invocation is settled,
\* a timer that fired with nothing settled before it gives the timeout
\* outcome, and every invocation eventually settles.
C2_TimeoutFromInvocationStart ==
  /\ [](execNow > timeoutSeconds => execPromise.state # "pending")
  /\ [](timer = "fired" =>
          execPromise.state = "rejected" /\ execPromise.value = [error |-> "timeout"])
  /\ <>(execPromise.state # "pending")

\* C2 witness: the timeout outcome of an invocation that was emitting on both
\* streams, with a chunk delivered after the timer fired.
C2_Witness ==
  /\ timer = "fired"
  /\ execPromise.value = [error |-> "timeout"]
  /\ stdoutChunks # <<>>
  /\ stderrChunks # <<>>
  /\ execNow > timeoutSeconds

-----------------------------------------------------------------------------
\* Properties of collectStream (CollectSpec, FairCollectSpec).

\* The chunks of `emitted` delivered before the deadline timer fired, and all of them.
OnTimeChunks == [i \in 1..Len(SelectSeq(emitted, LAMBDA e : ~e.late)) |->
                   SelectSeq(emitted, LAMBDA e : ~e.late)[i].chunk]
AllChunks == [i \in 1..Len(emitted) |-> emitted[i].chunk]

\* C3: for a stream that neither ends nor errors, the promise is resolved by
\* the deadline timer: it is no longer pending once the deadline has passed,
\* the timer does fire, and the content is the chunks delivered before the
\* timer fired, in delivery order, without any chunk delivered later.
C3_NeverEndingStreamResolvesAtDeadline ==
  /\ [](stream \in {"open", "destroyed"} =>
          /\ collectNow > collectDue => collectPromise.state = "fulfilled"
          /\ collectTimer = "fired" =>
               /\ collectPromise.state = "fulfilled"
               /\ collectPromise.value = ChunksToString(OnTimeChunks))
  /\ <>(stream \in {"ended", "errored"} \/ collectTimer = "fired")

\* C3 witness: the timer fired on an open stream after two chunks, and a chunk
\* arrived after it.
C3_Witness ==
  /\ collectTimer = "fired"
  /\ stream = "destroyed"
  /\ Len(OnTimeChunks) >= 2
  /\ Len(AllChunks) > Len(OnTimeChunks)
  /\ collectPromise.value = ChunksToString(OnTimeChunks)

\* C4: when the stream ends before the deadline, the promise is resolved at
\* the end event with every chunk delivered, and the deadline timer is
\* cancelled: it is neither armed nor does it ever fire afterwards.
C4_EndResolvesAndCancelsTimer ==
  stream = "ended" =>
    /\ collectPromise.state = "fulfilled"
    /\ collectPromise.value = ChunksToString(AllChunks)
    /\ collectTimer = "cleared"

\* C4 witness: the stream ended after delivering chunks, and the clock has
\* passed the deadline since, with the timer cancelled.
C4_Witness ==
  /\ stream = "ended"
  /\ Len(emitted) >= 2
  /\ collectNow > collectDue
  /\ collectTimer = "cleared"

-----------------------------------------------------------------------------
\* Properties of the port-forward registry (Spec).

StartDone(c) == startCall[c].pc = "done"
StartSucceeded(c) == StartDone(c) /\ ~startCall[c].result.isError
StartFailed(c) == StartDone(c) /\ startCall[c].result.isError
StopDone(c) == stopCall[c].pc = "done"
StopSucceeded(c) == StopDone(c) /\ ~stopCall[c].result.isError
StopFailed(c) == StopDone(c) /\ stopCall[c].result.isError

\* The session ids k8s_port_forward_list returns in the current state.
ListedIds == {ListResponse[i].sessionId : i \in 1..Len(ListResponse)}

\* C5: every entry of the session map refers to a listener that is open and
\* bound to the entry's local port, in every reachable state, a stop in
\* progress included.
C5_EveryEntryHasOpenListener ==
  \A i \in 1..Len(sessions) :
    /\ servers[sessions[i].server].state = "listening"
    /\ servers[sessions[i].server].port = sessions[i].localPort

\* C6: the step in which a start returns success leaves its session in the
\* map, under the returned id, with the call's own listening server, so that
\* a list run from then on returns the id; the step in which a start returns
\* the bind error leaves the map as it was and no listener of that call open.
C6_StartRegistersOrLeavesNoTrace ==
  [][\A c \in StartCalls :
       (~StartDone(c) /\ StartDone(c)') =>
         IF startCall'[c].result.isError
           THEN /\ sessions' = sessions
                /\ servers'[c].state # "listening"
           ELSE /\ SessionsHas(sessions', startCall'[c].result.sessionId)
                /\ SessionsGet(sessions', startCall'[c].result.sessionId).server = c
                /\ servers'[c].state = "listening"
                /\ startCall'[c].result.sessionId \in ListedIds'
                /\ \A i \in 1..Len(sessions) :
                     sessions[i].id # startCall'[c].result.sessionId
                       => sessions'[i] = sessions[i]]_vars

\* C6 witness: a start on an explicit local port failed to bind because a
\* registered session holds that port, and the session is still listed.
C6_Witness ==
  \E c, d \in StartCalls :
    /\ StartFailed(c) /\ startCall[c].localPort # 0
    /\ StartSucceeded(d) /\ startCall[d].result.localPort = startCall[c].localPort
    /\ startCall[d].result.sessionId \in ListedIds
    /\ servers[d].state = "listening"
    /\ Len(sessions) = 1

\* C7: the step in which a stop returns its acknowledgment leaves the
\* session's listener closed and the id out of the map, so that a list run
\* from then on does not return the id.
C7_StopAcknowledgesAfterRemoval ==
  [][\A c \in StopCalls :
       (~StopDone(c) /\ StopDone(c)' /\ ~stopCall'[c].result.isError) =>
         /\ stopCall'[c].result.text = "stopped"
         /\ servers'[stopCall[c].server].state = "closed"
         /\ ~SessionsHas(sessions', stopCall[c].sessionId)
         /\ stopCall[c].sessionId \notin ListedIds']_vars

\* C7 witness: a stop of a registered session has been acknowledged while
\* another session stays registered.
C7_Witness ==
  \E c \in StopCalls :
    /\ StopSucceeded(c)
    /\ servers[stopCall[c].server].state = "closed"
    /\ stopCall[c].sessionId \notin ListedIds
    /\ Len(sessions) = 1

\* C8: a stop whose id is not in the map when its handler runs returns the
\* not-found error in that same step, and the step changes neither the map nor
\* any server.
C8_UnknownIdIsReported ==
  [][\A c \in StopCalls, id \in SessionIds :
       (stopCall[c].pc = "idle" /\ stopCall'[c].pc # "idle"
          /\ stopCall'[c].sessionId = id /\ ~SessionsHas(sessions, id)) =>
         /\ StopFailed(c)'
         /\ stopCall'[c].result.text = "not found"
         /\ sessions' = sessions
         /\ servers' = servers]_vars

\* C8 witness: a second stop of an id that a first stop has removed got the
\* error.
C8_Witness ==
  \E c, d \in StopCalls :
    /\ StopSucceeded(c) /\ StopFailed(d) /\ c < d
    /\ stopCall[c].sessionId = stopCall[d].sessionId
    /\ stopCall[d].result.text = "not found"

\* C9: when two starts for the same namespace, pod and remote port, both with
\* localPort = 0, are the only invocations and both have returned, both have
\* succeeded, with distinct ids and distinct local ports, and a list returns
\* both ids.
C9_TwoAutoStartsBothSucceed ==
  \A c, d \in StartCalls :
    ( /\ c # d
      /\ StartDone(c) /\ StartDone(d)
      /\ startCall[c].localPort = 0 /\ startCall[d].localPort = 0
      /\ startCall[c].namespace = startCall[d].namespace
      /\ startCall[c].podName = startCall[d].podName
      /\ startCall[c].remotePort = startCall[d].remotePort
      /\ \A e \in Calls \ {c, d} : startCall[e].pc = "idle" /\ stopCall[e].pc = "idle" )
    => /\ StartSucceeded(c) /\ StartSucceeded(d)
       /\ startCall[c].result.sessionId # startCall[d].result.sessionId
       /\ startCall[c].result.localPort # startCall[d].result.localPort
       /\ {startCall[c].result.sessionId, startCall[d].result.sessionId} \subseteq ListedIds

\* C10: a stop that has closed the listener is not left waiting for local
\* clients: the accepted connections of the closed listener have been
\* terminated, so the close callback can run and the stop can return.
C10_StopDoesNotWaitForClients ==
  \A c \in StopCalls :
    stopCall[c].pc = "closing" => CloseCallbackReady(stopCall[c].server)

\* Position of the entry of key id in the map.
PositionOf(map, id) == CHOOSE i \in 1..Len(map) : map[i].id = id

\* C11: a stop of id1 and a start that registered another id2 do not disturb
\* each other, however their steps interleave: while the stop is waiting and
\* after it has returned, id2 is in the map with the start's own listening
\* server and the metadata of the start's arguments, id1's listener is closed,
\* and once the stop has returned id1 is out of the map; the step in which the
\* stop removes id1 leaves every other entry as it was. (The invocations are
\* the stop, the start, and the start that had registered id1.)
C11_StopAndStartOfOtherIdIndependent ==
  /\ [](\A c \in StopCalls, d \in StartCalls :
          ( /\ stopCall[c].pc \in {"closing", "done"}
            /\ ~stopCall[c].result.isError
            /\ StartSucceeded(d)
            /\ startCall[d].result.sessionId # stopCall[c].sessionId
            /\ \A e \in Calls \ {c, d, stopCall[c].server} :
                 startCall[e].pc = "idle" /\ stopCall[e].pc = "idle" )
          => /\ SessionsHas(sessions, startCall[d].result.sessionId)
             /\ LET s == SessionsGet(sessions, startCall[d].result.sessionId) IN
                  /\ s.server = d
                  /\ s.namespace = startCall[d].namespace
                  /\ s.podName = startCall[d].podName
                  /\ s.remotePort = startCall[d].remotePort
                  /\ s.localPort = startCall[d].result.localPort
                  /\ s.createdAt < registrations
             /\ servers[d].state = "listening"
             /\ servers[d].port = startCall[d].result.localPort
             /\ servers[stopCall[c].server].state = "closed"
             /\ StopDone(c) => ~SessionsHas(sessions, stopCall[c].sessionId))
  /\ [][\A c \in StopCalls :
          (stopCall[c].pc = "closing" /\ StopDone(c)') =>
            \A i \in 1..Len(sessions) :
              sessions[i].id # stopCall[c].sessionId =>
                /\ SessionsHas(sessions', sessions[i].id)
                /\ SessionsGet(sessions', sessions[i].id) = sessions[i]]_vars

\* C11 witness: a start entered while a stop of another id was waiting for the
\* closed listener's client, and registered its session before the stop resumed.
C11_Witness ==
  \E c \in StopCalls, d \in StartCalls :
    /\ stopCall[c].pc = "closing"
    /\ servers[stopCall[c].server].connected
    /\ c < d
    /\ StartSucceeded(d)
    /\ startCall[d].result.sessionId # stopCall[c].sessionId
    /\ Len(sessions) = 2

\* C12: when the process has exited, no session of the map has a listener that
\* was still open at the exit.
C12_ExitClosesEveryListener ==
  process = "exited" =>
    \A i \in 1..Len(sessions) : servers[sessions[i].server].state # "listening"

\* C13: no handler ends by throwing, and a handler one of whose calls threw or
\* rejected has returned an envelope with isError true and the text its catch
\* block formats from the fault.
C13_FaultsBecomeErrorEnvelopes ==
  /\ outcome.kind # "threw"
  /\ (outcome.kind = "returned" /\ outcome.fault # NoFault) =>
       /\ outcome.envelope.isError
       /\ outcome.envelope.text =
            (IF tool = "k8s_copy_file" THEN CopyFileMessage(outcome.fault)
             ELSE formatK8sError(outcome.fault))
       /\ Len(outcome.envelope.text) > 0

\* C13 witness: collectStream, the third call of k8s_get_pod_logs, rejected with
\* an ApiException whose body has no message, and the handler returned the
\* error envelope.
C13_Witness ==
  /\ tool = "k8s_get_pod_logs"
  /\ callIndex = 2
  /\ outcome.kind = "returned"
  /\ outcome.fault \in Errors
  /\ outcome.fault.class = "ApiException"
  /\ outcome.fault.body = BodyWithoutMessage
  /\ outcome.envelope.isError

\* C14: a start that has returned carries isError true exactly when it could
\* not be completed as requested, that is when no listener was bound or the
\* target pod cannot be reached.
C14_ErrorFlagIffNotCompleted ==
  \A c \in StartCalls :
    StartDone(c) =>
      (startCall[c].result.isError
         <=> ~(podReachable /\ servers[c].state \in {"listening", "closed"}))

\* C15: once the timeout timer of execInPod has fired, the exec channel has
\* been cancelled and the invocation is no longer pending.
C15_ExecTimeoutCancelsChannel ==
  timer = "fired" =>
    /\ ~ExecChannelOpen
    /\ execPromise.state # "pending"

\* utf-8 bytes of a string of code points below U+10000
RECURSIVE Utf8Encode(_)
Utf8Encode(str) ==
  IF str = <<>> THEN <<>>
  ELSE LET cp == Head(str) IN
    (IF cp < 128 THEN <<cp>>
     ELSE IF cp < 2048 THEN <<192 + (cp \div 64), 128 + (cp % 64)>>
     ELSE <<224 + (cp \div 4096), 128 + ((cp \div 64) % 64), 128 + (cp % 64)>>)
      \o Utf8Encode(Tail(str))

\* C16: the step in which the status callback settles the invocation gives a
\* result with that status, whose stdout is, byte for byte, the chunks
\* delivered on stdout and whose stderr is, byte for byte, the chunks delivered
\* on stderr.
C16_ResultCarriesExactBytes ==
  [][(execPromise.state = "pending" /\ execPromise'.state = "fulfilled") =>
       /\ execPromise'.value.status \in Statuses
       /\ Utf8Encode(execPromise'.value.stdout) = BufferConcat(stdoutChunks)
       /\ Utf8Encode(execPromise'.value.stderr) = BufferConcat(stderrChunks)]_vars

\* C17: the result of a collection that has resolved carries a truncation
\* flag, true exactly when the deadline timer resolved it.
C17_ResultCarriesTruncationFlag ==
  collectPromise.state = "fulfilled" =>
    /\ "truncated" \in DOMAIN LogsHandlerResult
    /\ LogsHandlerResult.truncated = (collectTimer = "fired")

\* C18: when the stream has signalled an error (which it does only while open,
\* so before its end and before the deadline timer), the promise is rejected
\* with that error and holds none of the chunks, the deadline timer is
\* cancelled, and the log tool returns the error envelope.
C18_StreamErrorFailsWhole ==
  stream = "errored" =>
    /\ collectPromise.state = "rejected"
    /\ collectPromise.value = [error |-> "stream"]
    /\ collectTimer = "cleared"
    /\ LogsHandlerResult.isError
    /\ LogsHandlerResult.text = <<"stream">>

\* C18 witness: the stream errored after delivering two chunks, and the clock
\* has passed the deadline since.
C18_Witness ==
  /\ stream = "errored"
  /\ Len(chunks) >= 2
  /\ collectNow > collectDue
  /\ collectPromise.state = "rejected"
  /\ LogsHandlerResult.isError

\* C19: a start succeeds, and a session is registered, only when a tunnel to
\* the target pod can be negotiated.
C19_StartNeedsReachableTarget ==
  ~podReachable =>
    /\ sessions = <<>>
    /\ \A c \in StartCalls : ~StartSucceeded(c)

\* C20: the array list returns has one summary per entry of the map, in the
\* map's order, each with the six fields, whose values are those of the start
\* that registered the entry; no id occurs twice; and the order is insertion
\* order: a step keeps the relative order of the ids that stay and puts an id
\* that was not in the map after all the others.
C20_ListIsOrderedSnapshot ==
  /\ [](/\ Len(ListResponse) = Len(sessions)
        /\ \A i \in 1..Len(ListResponse) :
             LET r == ListResponse[i]
                 c == sessions[i].server
             IN /\ DOMAIN r = {"sessionId", "namespace", "podName", "localPort",
                               "remotePort", "createdAt"}
                /\ StartSucceeded(c)
                /\ r.sessionId = startCall[c].result.sessionId
                /\ r.namespace = startCall[c].namespace
                /\ r.podName = startCall[c].podName
                /\ r.remotePort = startCall[c].remotePort
                /\ r.localPort = servers[c].port
                /\ r.createdAt \in 0..(registrations - 1)
        /\ \A i, j \in 1..Len(ListResponse) :
             i # j => ListResponse[i].sessionId # ListResponse[j].sessionId)
  /\ [][/\ \A i, j \in 1..Len(sessions) :
             ( /\ i < j
               /\ SessionsHas(sessions', sessions[i].id)
               /\ SessionsHas(sessions', sessions[j].id) )
             => PositionOf(sessions', sessions[i].id) < PositionOf(sessions', sessions[j].id)
        /\ \A k \in 1..Len(sessions') :
             ~SessionsHas(sessions, sessions'[k].id) => k = Len(sessions')]_vars

\* C20 witness: two sessions are registered and list returns them in the order
\* of their registration.
C20_Witness ==
  /\ Len(ListResponse) = 2
  /\ ListResponse[1].createdAt < ListResponse[2].createdAt
  /\ ListResponse[1].localPort # ListResponse[2].localPort
  /\ \E c \in StartCalls : StartFailed(c)

C27_AtMostOneStopSucceeds ==
  \A s \in StartCalls :
    Cardinality({c \in StopCalls : StopSucceeded(c) /\ stopCall[c].server = s}) <= 1

\* C28: no listener is left open without a registry entry: once a start has
\* returned success and its listener is open, the map holds an entry for that
\* listener, also when the start registered the id of a session whose stop was
\* still in progress and that stop has returned since.
C28_OpenListenerStaysRegistered ==
  \A c \in StartCalls :
    (StartSucceeded(c) /\ servers[c].state = "listening") =>
      \E i \in 1..Len(sessions) : sessions[i].server = c

-----------------------------------------------------------------------------
\* Properties of McpClient (ClientSpec).

\* C23: a line that is not a response to an outstanding request (a response
\* with an id never issued, with the id of a request already answered or timed
\* out, or no response at all) settles no request and leaves the outstanding
\* set as it is; resolve/reject is called at most once per request, by its
\* response, its timeout or the close of the channel, whichever comes first,
\* and the outstanding set is exactly the issued requests not yet settled.
C23_UnmatchedResponsesAreDropped ==
  /\ [](\A id \in RequestIds :
          LET r == requestState[id] IN
            /\ r.calls <= 1
            /\ r.calls = 1 <=> r.promise.state # "pending"
            /\ r.timer = "fired" <=> r.promise = [state |-> "rejected",
                                                  value |-> [error |-> "timeout"]]
            /\ r.timer = "cleared" <=>
                 (r.promise.state # "pending" /\ r.promise.value # [error |-> "timeout"]))
  /\ [](pending = {id \in RequestIds :
                     id < nextId /\ requestState[id].promise.state = "pending"})
  /\ [][(received' = received + 1
          /\ ~(lastLine'.kind = "response" /\ lastLine'.id \in pending))
        => UNCHANGED <<pending, requestState>>]_vars

\* C23 witness: the response to request 1 arrived after request 1 had timed
\* out; the request keeps the timeout as its only outcome.
C23_Witness ==
  /\ lastLine = [kind |-> "response", id |-> 1, error |-> FALSE]
  /\ requestState[1].promise = [state |-> "rejected", value |-> [error |-> "timeout"]]
  /\ requestState[1].calls = 1
  /\ 1 \notin pending

\* C24: the step in which the channel closes rejects every request that was
\* outstanding, cancels its timer, touches no other request, and leaves the
\* outstanding set empty.
C24_CloseFailsOutstandingRequests ==
  [][(proc = "running" /\ proc' = "closed") =>
       /\ pending' = {}
       /\ \A id \in pending :
            /\ requestState'[id].promise = [state |-> "rejected",
                                            value |-> [error |-> "closed"]]
            /\ requestState'[id].timer = "cleared"
       /\ \A id \in RequestIds \ pending : requestState'[id] = requestState[id]]_vars

\* C24 witness: the channel closed while two requests were outstanding, and
\* both have failed with the close.
C24_Witness ==
  /\ proc = "closed"
  /\ pending = {}
  /\ \A id \in {1, 2} :
       requestState[id].promise = [state |-> "rejected", value |-> [error |-> "closed"]]

-----------------------------------------------------------------------------
\* Properties of runCommand and of the kubeconfig cache (KubeSpec).

\* The parts of the message of the error runCommand threw.
ThrownParts(run) == {run.error.message[i] : i \in 1..Len(run.error.message)}

\* C25: when the subprocess exits with a non-zero code, runCommand throws an
\* Error whose message contains the captured stderr, or the captured stdout
\* when stderr is empty, and the library's message only when both are empty;
\* when it exits with zero, runCommand returns the captured stdout and stderr
\* and does not throw.
C25_NonZeroExitThrowsCapturedOutput ==
  useContext.pc = "done" =>
    LET out == useContext.out
        run == useContext.run
    IN /\ (out.kind = "exit" /\ out.code # 0) =>
            /\ run.threw
            /\ run.error.class = "Error"
            /\ out.stderr # "" => out.stderr \in ThrownParts(run)
            /\ (out.stderr = "" /\ out.stdout # "") =>
                 (out.stdout \in ThrownParts(run) /\ out.message \notin ThrownParts(run))
            /\ out.message \in ThrownParts(run) <=> (out.stderr = "" /\ out.stdout = "")
       /\ (out.kind = "exit" /\ out.code = 0) =>
            /\ ~run.threw
            /\ run.stdout = out.stdout
            /\ run.stderr = out.stderr

\* C25 witness: kubectl exited with 1 having written to both streams, and
\* the error runCommand threw carries what it wrote to stderr.
C25_Witness ==
  /\ useContext.pc = "done"
  /\ useContext.out.kind = "exit" /\ useContext.out.code = 1
  /\ useContext.out.stderr = "e" /\ useContext.out.stdout = "o"
  /\ useContext.run.threw
  /\ "e" \in ThrownParts(useContext.run)

\* C26: the step in which k8s_use_context returns success leaves no cached
\* handle; configuration is loaded only by a getKubeConfig call that finds no
\* cached handle, and that call returns a new handle, read from the file as
\* it is then; a getKubeConfig call that finds a cached handle returns it
\* without loading; so whenever no switch is in flight the cached handle, if
\* there is one, is of the context that is active.
C26_SwitchInvalidatesCachedHandle ==
  /\ [][(useContext.pc = "running" /\ useContext'.pc = "done"
           /\ ~useContext'.result.isError) => kubeConfig' = NoKubeConfig]_vars
  /\ [][loads' # loads =>
          /\ kubeConfig = NoKubeConfig
          /\ loads' = loads + 1
          /\ handle' = [id |-> loads', context |-> currentContext]
          /\ kubeConfig' = handle']_vars
  /\ [][(handle' # handle /\ kubeConfig # NoKubeConfig) =>
          (handle' = kubeConfig /\ kubeConfig' = kubeConfig /\ loads' = loads)]_vars
  /\ [](useContext.pc # "running" =>
          (kubeConfig = NoKubeConfig \/ kubeConfig.context = currentContext))

\* C26 witness: a handle was loaded, k8s_use_context switched to another
\* context and returned success, and the getKubeConfig call after it returned
\* a second handle, of the new context.
C26_Witness ==
  /\ useContext.pc = "done" /\ ~useContext.result.isError
  /\ handle.id = 2
  /\ handle.context = useContext.name
  /\ currentContext = useContext.name
  /\ switches = 1

-----------------------------------------------------------------------------
\* Properties of makeSessionId (IdSpec).

\* C29: makeSessionId is injective on the argument tuples the schema of the
\* start tool accepts: two different tuples never give the same id.
C29_SessionIdIsInjective ==
  (idResult # <<>> /\ idArgs[1] # idArgs[2]) => idResult[1] # idResult[2]

-----------------------------------------------------------------------------
\* Properties of the server with a k8s_exec in flight (ServerSpec).

====
